---- MODULE Spec2Model ----
(***************************************************************************)
(* The tiering engine of drive-manager (src/deepseek/tiering_manager.rs):  *)
(* the metadata store, the scan pass, the mover pool, the retry loop and   *)
(* the maintenance (reconciler) pass, together with the filesystem under   *)
(* the three tier roots and the external copy tool.                        *)
(*                                                                         *)
(* Paths are sequences of path components, so that format!, strip_prefix   *)
(* and the store keys are computed as the code computes them.              *)
(***************************************************************************)
EXTENDS Integers, Sequences, FiniteSets, TLC

\* ---------------------------------------------------------------- bounds
\* file names that exist directly under a tier root
Names == {"a"}
\* directories that exist directly under a tier root
SubDirs == {"d"}
\* file sizes; a file is created with the smallest and can be rewritten
Sizes == {1, 2}
\* the clock runs 0..MaxTime
MaxTime == 1
\* access_count is a u64; scanning stops before it passes MaxCount
MaxCount == 2
\* the mpsc channels are unbounded; the model caps the tasks they and the pool hold
MaxQueue == 2
\* files are changed from outside, and moves submitted, at most MaxEnvOps times
MaxEnvOps == 2
\* config.json: access_count_threshold, access_time_threshold
AccessCountThreshold == 2
AccessTimeThreshold == 1
\* db.iter() starts at any of the first 1 + MaxRotation keys of a tier
MaxRotation == 2
\* config.json: tier_capacity_threshold, a percentage
TierCapacityThreshold == 80

\* ------------------------------------------------------- program constants
MAX_RETRIES == 3
\* the capacity the variant with bounded channels gives move_queue
MOVE_QUEUE_CAPACITY == 100
TAKE_LIMIT == 10
Threads == 4
Tiers == <<"hot", "warm", "cold">>
TierSet == {"hot", "warm", "cold"}
MERGERFS_MOUNT_PATH == <<"/", "mnt", "merged">>
Never == -1
\* the block classes sort_block_device knows
BlockClasses == {"nvme", "ssd", "hdd"}

\* ------------------------------------------------------------------ paths
\* format!("{}/{}", a, b) followed by Path parsing: the components of a, then b
Join(a, b) == a \o b

IsPrefix(p, s) == Len(p) <= Len(s) /\ SubSeq(s, 1, Len(p)) = p

\* Path::strip_prefix: Ok(rest) or Err
StripPrefix(s, p) ==
    IF IsPrefix(p, s)
    THEN [ok |-> TRUE, path |-> SubSeq(s, Len(p) + 1, Len(s))]
    ELSE [ok |-> FALSE, path |-> <<>>]

\* the regular files read_dir can return in the tier roots
AbsPath(tier, name) == Join(Join(MERGERFS_MOUNT_PATH, <<tier>>), <<name>>)
AllFiles == {AbsPath(t, n) : t \in TierSet, n \in Names}

\* the regular files one directory below a tier root
NestedFiles ==
    {Join(Join(MERGERFS_MOUNT_PATH, <<t>>), <<d, n>>) : t \in TierSet, d \in SubDirs, n \in Names}

\* the tier root a path lies under
TierOfPath(p) == p[Len(MERGERFS_MOUNT_PATH) + 1]

\* ------------------------------------------------------------------ state
VARIABLES
    fs,        \* filesystem: absolute path -> [atime, size] for each regular file
    db,        \* the shelf: key -> FileMetadata
    moveQ,     \* move_queue channel
    retryQ,    \* retry_queue channel
    pool,      \* jobs handed to the thread pool and not finished
    scanPc,    \* position of tiering_check_loop
    now,       \* SystemTime::now()
    dryrun,    \* args.dryrun
    envOps,    \* how many outside events have happened
    usage,     \* usage_percent of the filesystem mounted at each tier root
    lock,      \* the drive_manager mutex is held across a call
    shutdown,  \* the process has been asked to shut down
    devices,   \* block classes of the active drives
    durable,   \* the shelf as the last db.sync left it on disk
    scanHeld   \* what update_file_metadata holds between db.get and db.insert

vars ==
    <<fs, db, moveQ, retryQ, pool, scanPc, now, dryrun, envOps, usage, lock, shutdown, devices,
      durable, scanHeld>>

\* ------------------------------------------------------------- the shelf
\* db.get(k) is Some(d[k]) when ContainsKey(d, k), None otherwise
ContainsKey(d, k) == k \in DOMAIN d

Insert(d, k, r) == [x \in (DOMAIN d) \cup {k} |-> IF x = k THEN r ELSE d[x]]

Remove(d, k) == [x \in (DOMAIN d) \ {k} |-> d[x]]

EmptyMap == [x \in {} |-> 0]

\* FileMetadata; last_tier_move is written by move_file only
FileMetadata(atime, count, size, tier, moved) ==
    [last_access_time |-> atime, access_count |-> count,
     file_size |-> size, tier |-> tier, last_tier_move |-> moved]

FileMoveInfo(src, source_tier, target_tier, retries) ==
    [src |-> src, source_tier |-> source_tier,
     target_tier |-> target_tier, retries |-> retries]

Init ==
    /\ fs = EmptyMap
    /\ db = EmptyMap
    /\ moveQ = <<>>
    /\ retryQ = <<>>
    /\ pool = <<>>
    /\ scanPc = "sleep"
    /\ now = 0
    /\ dryrun = FALSE
    /\ envOps = 0
    /\ usage = [t \in TierSet |-> TierCapacityThreshold - 1]
    /\ lock = FALSE
    /\ shutdown = FALSE
    /\ devices = BlockClasses
    /\ durable = db
    /\ scanHeld = <<>>

\* ------------------------------------------------------------ environment
\* a program outside the daemon creates, reads, rewrites or deletes a file
CreateFile ==
    /\ envOps < MaxEnvOps
    /\ envOps' = envOps + 1
    /\ \E p \in AllFiles \ DOMAIN fs :
          fs' = Insert(fs, p, [atime |-> now,
                               size |-> CHOOSE s \in Sizes : \A u \in Sizes : s <= u])
    /\ UNCHANGED <<db, moveQ, retryQ, pool, scanPc, now, dryrun, usage, lock, shutdown, devices, durable, scanHeld>>

CreateNestedFile ==
    /\ envOps < MaxEnvOps
    /\ envOps' = envOps + 1
    /\ \E p \in NestedFiles \ DOMAIN fs :
          fs' = Insert(fs, p, [atime |-> now,
                               size |-> CHOOSE s \in Sizes : \A u \in Sizes : s <= u])
    /\ UNCHANGED <<db, moveQ, retryQ, pool, scanPc, now, dryrun, usage, lock, shutdown, devices, durable, scanHeld>>

TouchFile ==
    /\ envOps < MaxEnvOps
    /\ envOps' = envOps + 1
    /\ \E p \in DOMAIN fs :
          /\ fs[p].atime < now
          /\ fs' = Insert(fs, p, [atime |-> now, size |-> fs[p].size])
    /\ UNCHANGED <<db, moveQ, retryQ, pool, scanPc, now, dryrun, usage, lock, shutdown, devices, durable, scanHeld>>

WriteFile ==
    /\ envOps < MaxEnvOps
    /\ envOps' = envOps + 1
    /\ \E p \in DOMAIN fs, s \in Sizes :
          /\ s # fs[p].size
          /\ fs' = Insert(fs, p, [atime |-> fs[p].atime, size |-> s])
    /\ UNCHANGED <<db, moveQ, retryQ, pool, scanPc, now, dryrun, usage, lock, shutdown, devices, durable, scanHeld>>

DeleteFile ==
    /\ envOps < MaxEnvOps
    /\ envOps' = envOps + 1
    /\ \E p \in DOMAIN fs : fs' = Remove(fs, p)
    /\ UNCHANGED <<db, moveQ, retryQ, pool, scanPc, now, dryrun, usage, lock, shutdown, devices, durable, scanHeld>>

\* the percentages around the threshold a tier's filesystem can be filled to
UsagePercents == {TierCapacityThreshold - 1, TierCapacityThreshold, TierCapacityThreshold + 1}

\* data is written to or removed from the disks behind a tier
DiskUsage ==
    /\ envOps < MaxEnvOps
    /\ envOps' = envOps + 1
    /\ \E t \in TierSet, u \in UsagePercents :
          /\ u # usage[t]
          /\ usage' = [usage EXCEPT ![t] = u]
    /\ UNCHANGED <<fs, db, moveQ, retryQ, pool, scanPc, now, dryrun, lock, shutdown, devices, durable, scanHeld>>

Tick ==
    /\ now < MaxTime
    /\ now' = now + 1
    /\ UNCHANGED <<fs, db, moveQ, retryQ, pool, scanPc, dryrun, envOps, usage, lock, shutdown, devices, durable, scanHeld>>

\* ---------------------------------------------------------------- helpers
\* every order in which an iterator can yield the elements of S
Orders(S) ==
    {q \in [1..Cardinality(S) -> S] : \A i, j \in 1..Cardinality(S) : i # j => q[i] # q[j]}

\* Iterator::take(n)
Take(q, n) == SubSeq(q, 1, IF Len(q) < n THEN Len(q) ELSE n)

\* fs::read_dir of a tier root, filtered by path.is_file(): the files directly
\* in it; a subdirectory is an entry that is not a file, and is not descended
ReadDir(tier) ==
    CHOOSE q \in Orders({p \in DOMAIN fs : /\ TierOfPath(p) = tier
                                             /\ Len(p) = Len(MERGERFS_MOUNT_PATH) + 2}) : TRUE

\* the entries of hot, then warm, then cold

Entries == ReadDir(Tiers[1]) \o ReadDir(Tiers[2]) \o ReadDir(Tiers[3])

RemoveAt(q, i) == SubSeq(q, 1, i - 1) \o SubSeq(q, i + 1, Len(q))

\* RelativePath as it would be if the tier root were stripped, as move_file does
RelativePathUnderTier(path) ==
    StripPrefix(path, Join(MERGERFS_MOUNT_PATH, <<TierOfPath(path)>>)).path

\* the key update_file_metadata and validate_and_update_database store a file under
RelativePath(path) == StripPrefix(path, MERGERFS_MOUNT_PATH).path

\* tasks in the channels and the pool together
InFlight == Len(moveQ) + Len(retryQ) + Len(pool)

\* ------------------------------------------------------------- scan pass
\* queue_file_move: one send on move_queue, retries 0, no other check
QueueFileMove(q, file_path, source_tier, target_tier) ==
    Append(q, FileMoveInfo(file_path, source_tier, target_tier, 0))

\* RefreshedRecord as it would be if the old access_count were not read back
RefreshedRecordReset(d, path) ==
    LET key  == RelativePath(path)
        tier == TierOfPath(path)
    IN  IF ContainsKey(d, key)
        THEN [d[key] EXCEPT !.last_access_time = fs[path].atime,
                            !.access_count = 1,
                            !.file_size = fs[path].size,
                            !.tier = tier]
        ELSE FileMetadata(fs[path].atime, 1, fs[path].size, tier, Never)

\* RefreshedRecord as it would be if the observed size were added to the
\* stored one
RefreshedRecordAddsSize(d, path) ==
    LET key  == RelativePath(path)
        tier == TierOfPath(path)
        old  == d[key]
    IN  IF ContainsKey(d, key)
        THEN [old EXCEPT !.last_access_time = fs[path].atime,
                         !.access_count = old.access_count + 1,
                         !.file_size = old.file_size + fs[path].size,
                         !.tier = tier]
        ELSE FileMetadata(fs[path].atime, 1, fs[path].size, tier, Never)

\* RefreshedRecord as it would be if the scan stamped last_tier_move as well
RefreshedRecordStampsMove(d, path) ==
    LET key  == RelativePath(path)
        tier == TierOfPath(path)
        old  == d[key]
    IN  IF ContainsKey(d, key)
        THEN [old EXCEPT !.last_access_time = fs[path].atime,
                         !.access_count = old.access_count + 1,
                         !.file_size = fs[path].size,
                         !.tier = tier,
                         !.last_tier_move = now]
        ELSE FileMetadata(fs[path].atime, 1, fs[path].size, tier, Never)

\* the record update_file_metadata writes for one directory entry
RefreshedRecord(d, path) ==
    LET key  == RelativePath(path)
        tier == TierOfPath(path)
        old  == d[key]
    IN  IF ContainsKey(d, key)
        THEN [old EXCEPT !.last_access_time = fs[path].atime,
                         !.access_count = old.access_count + 1,
                         !.file_size = fs[path].size,
                         !.tier = tier]
        ELSE FileMetadata(fs[path].atime, 1, fs[path].size, tier, Never)

\* the loop of update_file_metadata over the directory entries
RECURSIVE RefreshAll(_, _)
RefreshAll(d, paths) ==
    IF paths = <<>> THEN d
    ELSE RefreshAll(Insert(d, RelativePath(Head(paths)), RefreshedRecord(d, Head(paths))),
                    Tail(paths))

\* UpdateFileMetadata as it would be if perform_tiering_check went on to
\* move_files_based_on_rules before check_tier_capacities
UpdateFileMetadataThenRules ==
    /\ scanPc = "sleep"
    /\ \A k \in DOMAIN db : db[k].access_count < MaxCount
    /\ db' = RefreshAll(db, Entries)
    /\ scanPc' = "rules"
    /\ durable' = db'
    /\ UNCHANGED <<fs, moveQ, retryQ, pool, now, dryrun, envOps, usage, lock, shutdown, devices, scanHeld>>

\* Phase A: update_file_metadata, then db.sync
UpdateFileMetadata ==
    /\ scanPc = "sleep"
    /\ \A k \in DOMAIN db : db[k].access_count < MaxCount
    /\ db' = RefreshAll(db, Entries)
    /\ scanPc' = "capacity"
    /\ durable' = db'
    /\ UNCHANGED <<fs, moveQ, retryQ, pool, now, dryrun, envOps, usage, lock, shutdown, devices, scanHeld>>

\* move_files_down: the tasks it sends, for one order of db.iter()
DemotionTarget(source_tier) == IF source_tier = "hot" THEN "warm" ELSE "cold"

InTier(d, tier) == {k \in DOMAIN d : d[k].tier = tier}

RECURSIVE SendAll(_, _, _, _)
SendAll(q, keys, source_tier, target_tier) ==
    IF keys = <<>> THEN q
    ELSE SendAll(QueueFileMove(q, Head(keys), source_tier, target_tier),
                 Tail(keys), source_tier, target_tier)

MoveFilesDown(q, source_tier, order) ==
    SendAll(q, Take(order, TAKE_LIMIT), source_tier, DemotionTarget(source_tier))

\* OverCapacity as it would be if a tier exactly at the threshold counted as over
OverCapacityInclusive(tier) == usage[tier] >= TierCapacityThreshold

\* the test of check_tier_capacities on one tier
OverCapacity(tier) == usage[tier] > TierCapacityThreshold

\* the loop of check_tier_capacities over hot, warm, cold: the queue it leaves,
\* for the orders oh, ow, oc in which db.iter() yields each tier's records
DemotionsQueued(q, oh, ow, oc) ==
    LET q1 == IF OverCapacity("hot") THEN MoveFilesDown(q, "hot", oh) ELSE q
        q2 == IF OverCapacity("warm") THEN MoveFilesDown(q1, "warm", ow) ELSE q1
    IN  IF OverCapacity("cold") THEN MoveFilesDown(q2, "cold", oc) ELSE q2

\* Phase B: check_tier_capacities
CheckTierCapacities ==
    /\ scanPc = "capacity"
    /\ \E oh \in Orders(InTier(db, "hot")), ow \in Orders(InTier(db, "warm")),
          oc \in Orders(InTier(db, "cold")) :
          LET q3 == DemotionsQueued(moveQ, oh, ow, oc)
          IN  /\ Len(q3) - Len(moveQ) + InFlight <= MaxQueue
              /\ moveQ' = q3
    /\ scanPc' = "rules"
    /\ UNCHANGED <<fs, db, retryQ, pool, now, dryrun, envOps, usage, lock, shutdown, devices, durable, scanHeld>>

\* PromotionEligible as it would be without the test of the tier
PromotionEligibleAnyTier(r) ==
    /\ r.access_count >= AccessCountThreshold
    /\ r.last_access_time > now - AccessTimeThreshold

\* Phase C: move_files_based_on_rules
PromotionEligible(r) ==
    /\ r.access_count >= AccessCountThreshold
    /\ r.last_access_time > now - AccessTimeThreshold
    /\ r.tier # "hot"

RECURSIVE SendPromotions(_, _)
SendPromotions(q, keys) ==
    IF keys = <<>> THEN q
    ELSE SendPromotions(QueueFileMove(q, Head(keys), db[Head(keys)].tier, "hot"), Tail(keys))

MoveFilesBasedOnRules ==
    /\ scanPc = "rules"
    /\ \E order \in Orders({k \in DOMAIN db : PromotionEligible(db[k])}) :
          /\ InFlight + Len(order) <= MaxQueue
          /\ moveQ' = SendPromotions(moveQ, order)
    /\ scanPc' = "sleep"
    /\ UNCHANGED <<fs, db, retryQ, pool, now, dryrun, envOps, usage, lock, shutdown, devices, durable, scanHeld>>

\* ------------------------------------------------------------ mover pool
\* file_mover_loop: receive one task and hand it to the thread pool
FileMoverLoop ==
    /\ moveQ # <<>>
    /\ pool' = Append(pool, [task |-> Head(moveQ), st |-> "start"])
    /\ moveQ' = Tail(moveQ)
    /\ UNCHANGED <<fs, db, retryQ, scanPc, now, dryrun, envOps, usage, lock, shutdown, devices, durable, scanHeld>>

\* Running as it would be if every job got a thread of its own
RunningUnbounded == 1..Len(pool)

\* the jobs the pool's worker threads are running
Running == 1..(IF Len(pool) < Threads THEN Len(pool) ELSE Threads)

\* Rsync as it would be without --remove-source-files: a successful run
\* leaves the source in place
RsyncKeepsSource(f, src, dest) ==
    IF dryrun THEN {[ok |-> TRUE, fs |-> f]}
    ELSE {[ok |-> FALSE, fs |-> f]} \cup
         (IF src \in DOMAIN f
          THEN {[ok |-> TRUE,
                 fs |-> Insert(f, dest, [atime |-> now, size |-> f[src].size])]}
          ELSE {})

\* DriveManager::rsync: the results the copy tool can give and the filesystem
\* each leaves (--remove-source-files: on success the source is gone)
Rsync(f, src, dest) ==
    IF dryrun THEN {[ok |-> TRUE, fs |-> f]}
    ELSE {[ok |-> FALSE, fs |-> f]} \cup
         (IF src \in DOMAIN f
          THEN {[ok |-> TRUE,
                 fs |-> Insert(Remove(f, src), dest, [atime |-> now, size |-> f[src].size])]}
          ELSE {})

\* move_file, the paths it computes from a task
SourcePath(t) == Join(MERGERFS_MOUNT_PATH, <<t.source_tier>>)
TargetPath(t) == Join(MERGERFS_MOUNT_PATH, <<t.target_tier>>)
Stripped(t) == StripPrefix(t.src, SourcePath(t))
Dest(t) == Join(TargetPath(t), Stripped(t).path)

\* move_file up to the return of rsync; the unwrap of strip_prefix panics
\* when src does not lie under the source tier root, and the job is gone
MoveFileCopy ==
    \E i \in Running :
       LET t == pool[i].task IN
       /\ pool[i].st = "start"
       /\ IF ~Stripped(t).ok
          THEN /\ pool' = RemoveAt(pool, i)
               /\ fs' = fs
          ELSE \E r \in Rsync(fs, t.src, Dest(t)) :
                  /\ fs' = r.fs
                  /\ pool' = [pool EXCEPT ![i].st = IF r.ok THEN "ok" ELSE "err"]
       /\ UNCHANGED <<db, moveQ, retryQ, scanPc, now, dryrun, envOps, usage, lock, shutdown, devices, durable, scanHeld>>

\* MovedStore as it would be if it relabelled the record under the key the
\* scan stored it under, without renaming the key
MovedStoreByKey(d, t) ==
    LET key == RelativePath(t.src) IN
    IF ContainsKey(d, key)
    THEN Insert(d, key, [d[key] EXCEPT !.tier = t.target_tier, !.last_tier_move = now])
    ELSE d

\* MovedStore as it would be if it removed the old key first and inserted
\* the new key only for a record found under relative_path
MovedStoreDeleteFirst(d, t) ==
    LET relative_path == Stripped(t).path
        old == RelativePath(t.src)
        new == RelativePath(Dest(t))
        d1  == IF ContainsKey(d, old) THEN Remove(d, old) ELSE d
    IN  IF ContainsKey(d, relative_path)
        THEN Insert(d1, new, [d[relative_path] EXCEPT !.tier = t.target_tier,
                                                      !.last_tier_move = now])
        ELSE d1

\* MovedStore as it would be if it wrote a record under relative_path whether
\* or not one was found there
MovedStoreUpsert(d, t) ==
    LET relative_path == Stripped(t).path IN
    IF ContainsKey(d, relative_path)
    THEN Insert(d, relative_path,
                [d[relative_path] EXCEPT !.tier = t.target_tier, !.last_tier_move = now])
    ELSE Insert(d, relative_path, FileMetadata(now, 1, 0, t.target_tier, now))

\* the store update of move_file after a successful copy
MovedStore(d, t) ==
    LET relative_path == Stripped(t).path IN
    IF ContainsKey(d, relative_path)
    THEN Insert(d, relative_path,
                [d[relative_path] EXCEPT !.tier = t.target_tier, !.last_tier_move = now])
    ELSE d

\* FailedTask as it would be if the mover counted the attempt itself
FailedTaskCounted(t) == [t EXCEPT !.retries = t.retries + 1]

\* what move_file sends on retry_queue after a failed copy
FailedTask(t) == t

\* move_file after rsync returned: store update and sync, or send to retry_queue
MoveFileFinish ==
    \E i \in Running :
       LET t == pool[i].task IN
       /\ pool[i].st \in {"ok", "err"}
       /\ pool' = RemoveAt(pool, i)
       /\ IF pool[i].st = "ok"
          THEN /\ db' = MovedStore(db, t)
               /\ durable' = db'
               /\ retryQ' = retryQ
          ELSE /\ retryQ' = Append(retryQ, FailedTask(t))
               /\ db' = db
               /\ durable' = durable
       /\ UNCHANGED <<fs, moveQ, scanPc, now, dryrun, envOps, usage, lock, shutdown, devices, scanHeld>>

\* ------------------------------------------------------------- retry loop
\* RetryStep with the comparison off by one
RetryStepOffByOne(t) ==
    IF t.retries <= MAX_RETRIES
    THEN <<[t EXCEPT !.retries = t.retries + 1]>>
    ELSE <<>>

\* RetryStep forwarding the task without counting the retry
RetryStepNoIncrement(t) ==
    IF t.retries < MAX_RETRIES THEN <<t>> ELSE <<>>

\* the sends retry_loop makes on move_queue for one received task
RetryStep(t) ==
    IF t.retries < MAX_RETRIES
    THEN <<[t EXCEPT !.retries = t.retries + 1]>>
    ELSE <<>>

RetryLoop ==
    /\ retryQ # <<>>
    /\ retryQ' = Tail(retryQ)
    /\ moveQ' = moveQ \o RetryStep(Head(retryQ))
    /\ UNCHANGED <<fs, db, pool, scanPc, now, dryrun, envOps, usage, lock, shutdown, devices, durable, scanHeld>>

\* ------------------------------------------------------------- reconciler
\* ValidatedRecord as it would be if a new record started at access_count 0
ValidatedRecordZero(d, path) ==
    LET key  == RelativePath(path)
        tier == TierOfPath(path)
    IN  IF ContainsKey(d, key)
        THEN (IF d[key].tier # tier THEN [d[key] EXCEPT !.tier = tier] ELSE d[key])
        ELSE FileMetadata(fs[path].atime, 0, fs[path].size, tier, Never)

\* ValidatedRecord as it would be if the pass restarted the statistics of a
\* record it finds
ValidatedRecordRecounts(d, path) ==
    LET key  == RelativePath(path)
        tier == TierOfPath(path)
    IN  IF ContainsKey(d, key)
        THEN [d[key] EXCEPT !.tier = tier, !.access_count = 1,
                            !.last_access_time = fs[path].atime,
                            !.file_size = fs[path].size]
        ELSE FileMetadata(fs[path].atime, 1, fs[path].size, tier, Never)

\* forward phase of validate_and_update_database for one directory entry
ValidatedRecord(d, path) ==
    LET key  == RelativePath(path)
        tier == TierOfPath(path)
    IN  IF ContainsKey(d, key)
        THEN (IF d[key].tier # tier THEN [d[key] EXCEPT !.tier = tier] ELSE d[key])
        ELSE FileMetadata(fs[path].atime, 1, fs[path].size, tier, Never)

RECURSIVE ValidateAll(_, _)
ValidateAll(d, paths) ==
    IF paths = <<>> THEN d
    ELSE ValidateAll(Insert(d, RelativePath(Head(paths)), ValidatedRecord(d, Head(paths))),
                     Tail(paths))

\* RemoveMissing as it would be if the reverse phase removed nothing
RemoveMissingKept(d) == d

\* the reverse phase: the records whose full path does not exist are removed
RemoveMissing(d) ==
    [k \in {x \in DOMAIN d : Join(MERGERFS_MOUNT_PATH, x) \in DOMAIN fs} |-> d[k]]

\* ValidateAndUpdateDatabase as it would be if the pass also queued a move to
\* hot for the first file it lists
ValidateAndUpdateDatabaseQueueing ==
    /\ db' = RemoveMissing(ValidateAll(db, Entries))
    /\ db' # db
    /\ moveQ' = IF InFlight < MaxQueue /\ Entries # <<>>
                THEN QueueFileMove(moveQ, RelativePath(Head(Entries)),
                                   TierOfPath(Head(Entries)), "hot")
                ELSE moveQ
    /\ durable' = db'
    /\ UNCHANGED <<fs, retryQ, pool, scanPc, now, dryrun, envOps, usage, lock, shutdown, devices, scanHeld>>

\* ValidateAndUpdateDatabase as it would be without the db.sync at its end
ValidateAndUpdateDatabaseNoSync ==
    /\ db' = RemoveMissing(ValidateAll(db, Entries))
    /\ db' # db
    /\ UNCHANGED <<fs, moveQ, retryQ, pool, scanPc, now, dryrun, envOps, usage, lock, shutdown, devices, durable, scanHeld>>

\* validate_and_update_database: forward phase, reverse phase, then sync
ValidateAndUpdateDatabase ==
    /\ db' = RemoveMissing(ValidateAll(db, Entries))
    /\ db' # db
    /\ durable' = db'
    /\ UNCHANGED <<fs, moveQ, retryQ, pool, scanPc, now, dryrun, envOps, usage, lock, shutdown, devices, scanHeld>>

\* --------------------------------------------------------- specifications
\* the daemon as main starts it.  Every key the scan pass hands to
\* queue_file_move is relative to the union root, so every job ends in the
\* panic of MoveFileCopy: the copy tool is never run, retry_queue stays empty
\* and retry_loop stays blocked in its receive.
Next ==
    \/ CreateFile \/ CreateNestedFile \/ TouchFile \/ WriteFile \/ DeleteFile \/ DiskUsage \/ Tick
    \/ UpdateFileMetadata \/ CheckTierCapacities \/ MoveFilesBasedOnRules
    \/ FileMoverLoop \/ MoveFileCopy
    \/ ValidateAndUpdateDatabase

Spec == Init /\ [][Next]_vars

\* queue_file_move called with the absolute path of a file, the form
\* move_file can resolve
SubmitMove ==
    /\ InFlight < MaxQueue
    /\ envOps < MaxEnvOps
    /\ envOps' = envOps + 1
    /\ \E p \in AllFiles, target \in TierSet :
          /\ target \in {DemotionTarget(TierOfPath(p)), "hot"}
          /\ target # TierOfPath(p)
          /\ moveQ' = QueueFileMove(moveQ, p, TierOfPath(p), target)
    /\ UNCHANGED <<fs, db, retryQ, pool, scanPc, now, dryrun, usage, lock, shutdown, devices, durable, scanHeld>>

\* the mover, the copy tool and the retry loop at work on such tasks, in the
\* hours tiering_check_loop sleeps between two passes
NextPipeline ==
    \/ CreateFile \/ DeleteFile \/ Tick
    \/ ValidateAndUpdateDatabase
    \/ SubmitMove \/ FileMoverLoop \/ MoveFileCopy \/ MoveFileFinish \/ RetryLoop

SpecPipeline == Init /\ [][NextPipeline]_vars

\* the daemon started with --dryrun: rsync returns true at once, nothing is
\* ever sent on retry_queue and retry_loop stays blocked in its receive
InitDryRun ==
    /\ fs = EmptyMap
    /\ db = EmptyMap
    /\ moveQ = <<>>
    /\ retryQ = <<>>
    /\ pool = <<>>
    /\ scanPc = "sleep"
    /\ now = 0
    /\ dryrun = TRUE
    /\ envOps = 0
    /\ usage = [t \in TierSet |-> TierCapacityThreshold - 1]
    /\ lock = FALSE
    /\ shutdown = FALSE
    /\ devices = BlockClasses
    /\ durable = db
    /\ scanHeld = <<>>

NextDryRun ==
    \/ CreateFile \/ DeleteFile \/ Tick
    \/ ValidateAndUpdateDatabase
    \/ SubmitMove \/ FileMoverLoop \/ MoveFileCopy \/ MoveFileFinish

SpecDryRun == InitDryRun /\ [][NextDryRun]_vars

\* Phase B on tiers that hold more files than take(10) lets through.
\* ManyNames is in lexicographic order.
ManyNames == <<"f01", "f02", "f03", "f04", "f05", "f06", "f07", "f08", "f09", "f10", "f11">>

ManyKeys(tier) == [i \in DOMAIN ManyNames |-> <<tier, ManyNames[i]>>]

\* orders in which db.iter() can yield the records of a full tier: rotations
\* of the key order; the empty order for a tier without records
IterOrders(d, tier) ==
    IF InTier(d, tier) = {} THEN {<<>>}
    ELSE {[i \in DOMAIN ManyNames |->
              ManyKeys(tier)[((i + r - 1) % Len(ManyNames)) + 1]] : r \in 0..MaxRotation}

\* the state Phase A leaves when each tier of `full` holds the files ManyNames,
\* all last read at time 0 and of the smallest size, but for file `recent`,
\* read at MaxTime, and file `large`, of the largest size (0: no such file);
\* the file that stands out is the first or the last of the tier
InitDemotion ==
    /\ \E full \in (SUBSET TierSet) \ {{}}, recent \in {0, 1, Len(ManyNames)},
          large \in {0, 1, Len(ManyNames)} :
          /\ fs = [p \in {AbsPath(t, ManyNames[i]) : t \in full, i \in DOMAIN ManyNames} |->
                     [atime |-> IF p[Len(p)] = ManyNames[IF recent = 0 THEN 1 ELSE recent]
                                   /\ recent # 0 THEN MaxTime ELSE 0,
                      size  |-> IF p[Len(p)] = ManyNames[IF large = 0 THEN 1 ELSE large]
                                   /\ large # 0
                                THEN CHOOSE s \in Sizes : \A u \in Sizes : s >= u
                                ELSE CHOOSE s \in Sizes : \A u \in Sizes : s <= u]]
          /\ db = [k \in {RelativePath(p) : p \in DOMAIN fs} |->
                     FileMetadata(fs[Join(MERGERFS_MOUNT_PATH, k)].atime, 1,
                                  fs[Join(MERGERFS_MOUNT_PATH, k)].size, k[1], Never)]
    /\ usage \in [TierSet -> UsagePercents]
    /\ lock = FALSE
    /\ shutdown = FALSE
    /\ devices = BlockClasses
    /\ durable = db
    /\ scanHeld = <<>>
    /\ moveQ = <<>>
    /\ retryQ = <<>>
    /\ pool = <<>>
    /\ scanPc = "capacity"
    /\ now = MaxTime
    /\ dryrun = FALSE
    /\ envOps = 0

\* Phase B: check_tier_capacities on such tiers
CheckFullTiers ==
    /\ scanPc = "capacity"
    /\ \E oh \in IterOrders(db, "hot"), ow \in IterOrders(db, "warm"),
          oc \in IterOrders(db, "cold") :
          moveQ' = DemotionsQueued(moveQ, oh, ow, oc)
    /\ scanPc' = "rules"
    /\ UNCHANGED <<fs, db, retryQ, pool, now, dryrun, envOps, usage, lock, shutdown, devices, durable, scanHeld>>

SpecDemotion == InitDemotion /\ [][CheckFullTiers]_vars

\* the scan loop running pass after pass while the thread of file_mover_loop
\* is not scheduled: every tier holds its file, last read at time 0, and is
\* over the threshold.  mpsc::channel() is unbounded and send never blocks;
\* the passes are followed until move_queue holds more than
\* MOVE_QUEUE_CAPACITY tasks.
InitBackpressure ==
    /\ \E full \in (SUBSET TierSet) \ {{}} :
          fs = [p \in {AbsPath(t, n) : t \in full, n \in Names} |->
                  [atime |-> 0, size |-> CHOOSE s \in Sizes : \A u \in Sizes : s <= u]]
    /\ db = EmptyMap
    /\ moveQ = <<>>
    /\ retryQ = <<>>
    /\ pool = <<>>
    /\ scanPc = "sleep"
    /\ now = MaxTime
    /\ dryrun = FALSE
    /\ envOps = 0
    /\ usage = [t \in TierSet |-> TierCapacityThreshold + 1]
    /\ lock = FALSE
    /\ shutdown = FALSE
    /\ devices = BlockClasses
    /\ durable = db
    /\ scanHeld = <<>>

ScanPhaseA ==
    /\ scanPc = "sleep"
    /\ Len(moveQ) <= MOVE_QUEUE_CAPACITY
    /\ db' = RefreshAll(db, Entries)
    /\ scanPc' = "capacity"
    /\ durable' = db'
    /\ UNCHANGED <<fs, moveQ, retryQ, pool, now, dryrun, envOps, usage, lock, shutdown, devices, scanHeld>>

ScanPhaseB ==
    /\ scanPc = "capacity"
    /\ \E oh \in Orders(InTier(db, "hot")), ow \in Orders(InTier(db, "warm")),
          oc \in Orders(InTier(db, "cold")) :
          moveQ' = DemotionsQueued(moveQ, oh, ow, oc)
    /\ scanPc' = "rules"
    /\ UNCHANGED <<fs, db, retryQ, pool, now, dryrun, envOps, usage, lock, shutdown, devices, durable, scanHeld>>

ScanPhaseC ==
    /\ scanPc = "rules"
    /\ \E order \in Orders({k \in DOMAIN db : PromotionEligible(db[k])}) :
          moveQ' = SendPromotions(moveQ, order)
    /\ scanPc' = "sleep"
    /\ UNCHANGED <<fs, db, retryQ, pool, now, dryrun, envOps, usage, lock, shutdown, devices, durable, scanHeld>>

SpecBackpressure == InitBackpressure /\ [][ScanPhaseA \/ ScanPhaseB \/ ScanPhaseC]_vars

\* move_file with the copy as a step of its own.  The guard returned by
\* drive_manager.lock() in the condition of the `if` lives until rsync has
\* returned, so the mutex is held while the child process runs; the scan
\* loop, the maintenance loop and every other mover lock the same mutex to
\* read MERGERFS_MOUNT_PATH and the configuration.
MoveFileBegin ==
    \E i \in Running :
       LET t == pool[i].task IN
       /\ pool[i].st = "start"
       /\ ~lock
       /\ IF ~Stripped(t).ok
          THEN pool' = RemoveAt(pool, i) /\ lock' = lock
          ELSE pool' = [pool EXCEPT ![i].st = "copy"] /\ lock' = TRUE
       /\ UNCHANGED <<fs, db, moveQ, retryQ, scanPc, now, dryrun, envOps, usage, shutdown, devices, durable, scanHeld>>

\* RsyncExit as it would be if the guard of the mutex outlived the call
RsyncExitKeepsLock ==
    \E i \in Running :
       LET t == pool[i].task IN
       /\ pool[i].st = "copy"
       /\ \E r \in Rsync(fs, t.src, Dest(t)) :
             /\ fs' = r.fs
             /\ pool' = [pool EXCEPT ![i].st = IF r.ok THEN "ok" ELSE "err"]
       /\ lock' = lock
       /\ UNCHANGED <<db, moveQ, retryQ, scanPc, now, dryrun, envOps, usage, shutdown, devices, durable, scanHeld>>

\* the child process exits and rsync returns
RsyncExit ==
    \E i \in Running :
       LET t == pool[i].task IN
       /\ pool[i].st = "copy"
       /\ \E r \in Rsync(fs, t.src, Dest(t)) :
             /\ fs' = r.fs
             /\ pool' = [pool EXCEPT ![i].st = IF r.ok THEN "ok" ELSE "err"]
       /\ lock' = FALSE
       /\ UNCHANGED <<db, moveQ, retryQ, scanPc, now, dryrun, envOps, usage, shutdown, devices, durable, scanHeld>>

\* a maintenance pass, which needs the mutex
MaintenanceLoop == ~lock /\ ValidateAndUpdateDatabase

NextCopy ==
    \/ CreateFile \/ SubmitMove
    \/ FileMoverLoop \/ MoveFileBegin \/ RsyncExit \/ MoveFileFinish \/ RetryLoop
    \/ MaintenanceLoop

SpecCopy == Init /\ [][NextCopy]_vars

\* more tasks than the pool has threads: queue_file_move called for the same
\* file until Threads + 1 tasks are in flight
SubmitBurst ==
    /\ InFlight <= Threads
    /\ \E p \in AllFiles :
          /\ TierOfPath(p) = "hot"
          /\ moveQ' = QueueFileMove(moveQ, p, "hot", "warm")
    /\ UNCHANGED <<fs, db, retryQ, pool, scanPc, now, dryrun, envOps, usage, lock, shutdown, devices, durable, scanHeld>>

NextPool == SubmitBurst \/ FileMoverLoop \/ MoveFileCopy \/ MoveFileFinish \/ RetryLoop

SpecPool == Init /\ [][NextPool]_vars

\* the process is asked to shut down while main sleeps in its loop.  Nothing in
\* the program reads the request: main installs no handler and keeps no flag,
\* and the four loops have no exit.
RaiseShutdown ==
    /\ ~shutdown
    /\ shutdown' = TRUE
    /\ UNCHANGED <<fs, db, moveQ, retryQ, pool, scanPc, now, dryrun, envOps, usage, lock, devices, durable, scanHeld>>

\* the four loops of start_background_process after such a request may have
\* come, at work on tasks move_file can resolve
NextShutdown ==
    \/ CreateFile \/ Tick \/ SubmitMove \/ RaiseShutdown
    \/ UpdateFileMetadata \/ CheckTierCapacities \/ MoveFilesBasedOnRules
    \/ FileMoverLoop \/ MoveFileCopy \/ MoveFileFinish
    \/ RetryLoop
    \/ ValidateAndUpdateDatabase

SpecShutdown == Init /\ [][NextShutdown]_vars

\* the three writers of the store together: the scan loop, the movers (with
\* the retry loop feeding them) and the maintenance loop
NextDaemon ==
    \/ CreateFile \/ SubmitMove
    \/ UpdateFileMetadata \/ CheckTierCapacities \/ MoveFilesBasedOnRules
    \/ FileMoverLoop \/ MoveFileCopy \/ MoveFileFinish
    \/ RetryLoop
    \/ ValidateAndUpdateDatabase

SpecDaemon == Init /\ [][NextDaemon]_vars

\* the path of a file below its tier root
TierRelative(p) == SubSeq(p, Len(MERGERFS_MOUNT_PATH) + 2, Len(p))

\* a program outside the daemon creates a file whose path below the tier
\* root exists under no tier root yet
CreateUnique ==
    /\ envOps < MaxEnvOps
    /\ envOps' = envOps + 1
    /\ \E p \in AllFiles :
          /\ \A q \in DOMAIN fs : TierRelative(q) # TierRelative(p)
          /\ fs' = Insert(fs, p, [atime |-> now,
                                  size |-> CHOOSE s \in Sizes : \A u \in Sizes : s <= u])
    /\ UNCHANGED <<db, moveQ, retryQ, pool, scanPc, now, dryrun, usage, lock, shutdown, devices, durable, scanHeld>>

\* one pass queues two tasks for the same file: move_files_down sends it to
\* the tier below and move_files_based_on_rules sends it to hot
QueueBoth ==
    /\ InFlight + 2 <= MaxQueue
    /\ \E p \in DOMAIN fs :
          /\ TierOfPath(p) # "hot"
          /\ moveQ' = QueueFileMove(QueueFileMove(moveQ, p, TierOfPath(p),
                                                  DemotionTarget(TierOfPath(p))),
                                    p, TierOfPath(p), "hot")
    /\ UNCHANGED <<fs, db, retryQ, pool, scanPc, now, dryrun, envOps, usage, lock, shutdown, devices, durable, scanHeld>>

\* the movers at work on such pairs of tasks; nothing outside the daemon
\* removes a file or creates one a second time
NextNamespace ==
    \/ CreateUnique \/ Tick \/ QueueBoth
    \/ FileMoverLoop \/ MoveFileCopy \/ MoveFileFinish \/ RetryLoop
    \/ ValidateAndUpdateDatabase

SpecNamespace == Init /\ [][NextNamespace]_vars

\* the maintenance loop under a fair scheduler: its thread gets to run a
\* pass whenever a pass would change the store.  Files come and go, at the
\* tier roots and below them, until the programs outside the daemon stop.
NextConverge ==
    \/ CreateFile \/ CreateNestedFile \/ DeleteFile \/ Tick
    \/ ValidateAndUpdateDatabase

SpecConverge == Init /\ [][NextConverge]_vars /\ WF_vars(ValidateAndUpdateDatabase)

\* update_file_metadata when fs::metadata returns Err for the i-th entry it
\* lists (the file system answers EIO, or the file is busy): the records of
\* the entries before it are written, then the unwrap of the result panics
\* and the thread of tiering_check_loop is gone
UpdateFileMetadataPanic ==
    /\ scanPc = "sleep"
    /\ \A k \in DOMAIN db : db[k].access_count < MaxCount
    /\ \E i \in DOMAIN Entries :
          db' = RefreshAll(db, SubSeq(Entries, 1, i - 1))
    /\ scanPc' = "panicked"
    /\ UNCHANGED <<fs, moveQ, retryQ, pool, now, dryrun, envOps, usage, lock, shutdown, devices, durable, scanHeld>>

\* the scan loop and the maintenance loop on a filesystem whose calls can fail
NextIoError ==
    \/ CreateFile \/ TouchFile \/ WriteFile \/ DeleteFile \/ Tick
    \/ UpdateFileMetadata \/ UpdateFileMetadataPanic
    \/ CheckTierCapacities \/ MoveFilesBasedOnRules
    \/ ValidateAndUpdateDatabase

SpecIoError == Init /\ [][NextIoError]_vars

\* a program outside the daemon sets the access time of a file back (utimes,
\* or a restore that keeps the recorded times)
SetAccessTime ==
    /\ envOps < MaxEnvOps
    /\ envOps' = envOps + 1
    /\ \E p \in DOMAIN fs, t \in 0..MaxTime :
          /\ t < fs[p].atime
          /\ fs' = Insert(fs, p, [atime |-> t, size |-> fs[p].size])
    /\ UNCHANGED <<db, moveQ, retryQ, pool, scanPc, now, dryrun, usage, lock, shutdown, devices, durable, scanHeld>>

\* the scan loop on files whose access times move both ways
NextAccessTime ==
    \/ CreateFile \/ TouchFile \/ SetAccessTime \/ Tick
    \/ UpdateFileMetadata \/ CheckTierCapacities \/ MoveFilesBasedOnRules

SpecAccessTime == Init /\ [][NextAccessTime]_vars

\* setup_mergerfs: the drives behind each tier, by block class: every active
\* drive for hot, all but nvme for warm, hdd only for cold
TierDevices(tier) ==
    IF tier = "hot" THEN devices
    ELSE IF tier = "warm" THEN devices \ {"nvme"}
    ELSE devices \cap {"hdd"}

\* the daemon on a machine with any non-empty mix of drive classes.
\* run_command does not look at the exit status of mergerfs, so a tier whose
\* glob is empty still gets its directory and the loops are started.
InitDevices ==
    /\ fs = EmptyMap
    /\ db = EmptyMap
    /\ moveQ = <<>>
    /\ retryQ = <<>>
    /\ pool = <<>>
    /\ scanPc = "sleep"
    /\ now = 0
    /\ dryrun = FALSE
    /\ envOps = 0
    /\ usage = [t \in TierSet |-> TierCapacityThreshold - 1]
    /\ lock = FALSE
    /\ shutdown = FALSE
    /\ devices \in (SUBSET BlockClasses) \ {{}}
    /\ durable = db
    /\ scanHeld = <<>>

SpecDevices == InitDevices /\ [][Next]_vars

\* update_file_metadata with the handling of one directory entry split where
\* another thread can run: the entries before it are handled, then the entry
\* is found to be a file, its metadata is read and db.get has returned
ScanGet ==
    /\ scanPc = "sleep"
    /\ scanHeld = <<>>
    /\ \A k \in DOMAIN db : db[k].access_count < MaxCount
    /\ \E i \in DOMAIN Entries :
          LET path == Entries[i]
              d1   == RefreshAll(db, SubSeq(Entries, 1, i - 1))
          IN  /\ db' = d1
              /\ scanHeld' = <<[path  |-> path,
                               atime |-> fs[path].atime,
                               size  |-> fs[path].size,
                               found |-> ContainsKey(d1, RelativePath(path)),
                               info  |-> IF ContainsKey(d1, RelativePath(path))
                                         THEN d1[RelativePath(path)]
                                         ELSE FileMetadata(fs[path].atime, 1, fs[path].size,
                                                           TierOfPath(path), Never),
                               rest  |-> SubSeq(Entries, i + 1, Len(Entries))]>>
    /\ scanPc' = "entry"
    /\ UNCHANGED <<fs, moveQ, retryQ, pool, now, dryrun, envOps, usage, lock, shutdown, devices,
                   durable>>

\* the record update_file_metadata inserts for the entry it holds
HeldRecord(h) ==
    IF h.found
    THEN [h.info EXCEPT !.last_access_time = h.atime,
                        !.access_count = h.info.access_count + 1,
                        !.file_size = h.size,
                        !.tier = TierOfPath(h.path)]
    ELSE h.info

\* the entries still to come that are files when the loop gets to them
RECURSIVE StillFiles(_)
StillFiles(paths) ==
    IF paths = <<>> THEN <<>>
    ELSE (IF Head(paths) \in DOMAIN fs THEN <<Head(paths)>> ELSE <<>>) \o StillFiles(Tail(paths))

\* db.insert for the held entry, then the remaining entries and db.sync
ScanInsert ==
    /\ scanPc = "entry"
    /\ scanHeld # <<>>
    /\ LET h == scanHeld[1] IN
       db' = RefreshAll(Insert(db, RelativePath(h.path), HeldRecord(h)), StillFiles(h.rest))
    /\ durable' = db'
    /\ scanHeld' = <<>>
    /\ scanPc' = "capacity"
    /\ UNCHANGED <<fs, moveQ, retryQ, pool, now, dryrun, envOps, usage, lock, shutdown, devices>>

\* the scan loop, entry by entry, beside the movers
NextRace ==
    \/ CreateUnique \/ SubmitMove
    \/ ScanGet \/ ScanInsert \/ CheckTierCapacities \/ MoveFilesBasedOnRules
    \/ FileMoverLoop \/ MoveFileCopy \/ MoveFileFinish \/ RetryLoop

SpecRace == Init /\ [][NextRace]_vars

\* ------------------------------------------------------------- properties
\* every task in the channels or held by the pool
Tasks ==
    {moveQ[i] : i \in DOMAIN moveQ} \cup {retryQ[i] : i \in DOMAIN retryQ}
        \cup {pool[i].task : i \in DOMAIN pool}

\* how many tasks with source path P the channels and the pool hold
CountFor(P) ==
    Cardinality({i \in DOMAIN moveQ : moveQ[i].src = P})
        + Cardinality({i \in DOMAIN retryQ : retryQ[i].src = P})
        + Cardinality({i \in DOMAIN pool : pool[i].task.src = P})

Quiescent == scanPc = "sleep" /\ moveQ = <<>> /\ retryQ = <<>> /\ pool = <<>>

\* C1: for every path P, the Move Queue, the Retry Queue and the movers
\* together hold at most one task whose source path is P.
AtMostOneInFlight == \A t \in Tasks : CountFor(t.src) <= 1

\* C2: every task on the Move Queue, on the Retry Queue or held by a mover
\* has retries in 0..3.
RetryBound == \A t \in Tasks : t.retries \in 0..3

RetryBoundWitness == \E i \in DOMAIN pool : pool[i].task.retries = 3

\* C3: a step that takes task t from the Retry Queue puts on the Move Queue
\* exactly one task equal to t but for retries = t.retries + 1 when
\* t.retries < 3, and puts nothing on either queue when t.retries >= 3.
RetryStepForwards ==
    [][(retryQ # <<>> /\ retryQ' = Tail(retryQ)) =>
         LET t == Head(retryQ) IN
         /\ pool' = pool
         /\ t.retries < 3 =>
               moveQ' = Append(moveQ, [src |-> t.src, source_tier |-> t.source_tier,
                                       target_tier |-> t.target_tier,
                                       retries |-> t.retries + 1])
         /\ t.retries >= 3 => moveQ' = moveQ]_vars

RetryStepWitness == \E i \in DOMAIN moveQ : moveQ[i].retries >= 1

\* C4: a task leaves the queues and the movers only when a copy of it has
\* succeeded or when the Retry Worker drops it with retries = 3, that is
\* after its fourth failed attempt; each earlier failed attempt passes it on.
TaskLeavesOnlyAtTerminal ==
    [][InFlight' < InFlight =>
         \/ retryQ # <<>> /\ Head(retryQ).retries = 3 /\ retryQ' = Tail(retryQ)
         \/ \E i \in DOMAIN pool : pool[i].st = "ok" /\ pool' = RemoveAt(pool, i)]_vars

\* C5: a mover whose copy failed puts the very same task on the Retry Queue
\* and leaves the store as it was; the failed copy itself changes neither
\* the store nor the filesystem.
FailedMoveForwarded ==
    [][\A i \in DOMAIN pool :
          /\ (pool[i].st = "err" /\ pool' = RemoveAt(pool, i)) =>
                retryQ' = Append(retryQ, pool[i].task) /\ db' = db
          /\ (pool[i].st = "start" /\ Len(pool') = Len(pool) /\ pool'[i].st = "err") =>
                db' = db /\ fs' = fs /\ pool'[i].task = pool[i].task]_vars

FailedMoveWitness == \E i \in DOMAIN retryQ : retryQ[i].retries = 0 /\ db # EmptyMap

\* C6: when a mover completes a successful move of P from S to T and the
\* store has a record under S/P, afterwards there is no record under S/P and
\* the record under T/P has tier T, last_tier_move = now and the old record's
\* access_count and file_size.
SuccessfulMoveRekeys ==
    [][\A i \in DOMAIN pool :
          LET t == pool[i].task
              old == RelativePath(t.src)
              new == RelativePath(Dest(t))
          IN  (pool[i].st = "ok" /\ pool' = RemoveAt(pool, i) /\ old \in DOMAIN db) =>
                 /\ old \notin DOMAIN db'
                 /\ new \in DOMAIN db'
                 /\ db'[new].tier = t.target_tier
                 /\ db'[new].last_tier_move = now
                 /\ db'[new].access_count = db[old].access_count
                 /\ db'[new].file_size = db[old].file_size]_vars

\* C7: in every quiescent state every record's tier is the first segment of
\* its key.
Partition == Quiescent => \A k \in DOMAIN db : db[k].tier = k[1]

PartitionWitness ==
    /\ Quiescent
    /\ \E k \in DOMAIN db : db[k].access_count >= 2 /\ Join(MERGERFS_MOUNT_PATH, k) \notin DOMAIN fs

\* C8: the store update of a successful move of P never leaves P's record
\* absent under both the old and the new key, nor the old key gone with the
\* new key carrying the old tier.
AtomicMoveVisibility ==
    [][\A i \in DOMAIN pool :
          LET t == pool[i].task
              old == RelativePath(t.src)
              new == RelativePath(Dest(t))
          IN  (pool[i].st = "ok" /\ pool' = RemoveAt(pool, i)) =>
                 /\ ~(old \in DOMAIN db /\ old \notin DOMAIN db' /\ new \notin DOMAIN db')
                 /\ ~(old \notin DOMAIN db' /\ new \in DOMAIN db'
                        /\ db'[new].tier = t.source_tier)]_vars

AtomicMoveWitness ==
    \E n \in Names :
       /\ AbsPath("hot", n) \in DOMAIN fs
       /\ AbsPath("warm", n) \notin DOMAIN fs
       /\ <<"warm", n>> \in DOMAIN db
       /\ <<"hot", n>> \notin DOMAIN db
       /\ pool = <<>> /\ moveQ = <<>> /\ retryQ = <<>>
       /\ envOps = 2

\* C9: no step lowers the access_count of a record, and Phase A of a Scan
\* pass raises by exactly 1 the access_count of every file it observes that
\* has a record.
Monotonicity ==
    [][/\ \A k \in (DOMAIN db) \cap (DOMAIN db') :
             db'[k].access_count >= db[k].access_count
       /\ (scanPc = "sleep" /\ scanPc' = "capacity") =>
             \A p \in DOMAIN fs :
                RelativePath(p) \in DOMAIN db =>
                   db'[RelativePath(p)].access_count = db[RelativePath(p)].access_count + 1]_vars

MonotonicityWitness ==
    scanPc = "capacity" /\ \E k \in DOMAIN db : db[k].access_count >= 2

\* C10: every record in the store has access_count >= 1.
AccessCountPositive == \A k \in DOMAIN db : db[k].access_count >= 1

AccessCountWitness ==
    scanPc = "sleep" /\ envOps = 1 /\ \E k \in DOMAIN db : db[k].access_count = 1

\* C11: at the end of a Scan pass, every record that has access_count >=
\* access_count_threshold, now - last_access_time <= access_time_threshold
\* (the boundary included), tier other than hot, and no task in flight, has
\* a promotion task to hot on the Move Queue.
PromotionPolicy ==
    [][(scanPc = "rules" /\ scanPc' = "sleep") =>
         \A k \in DOMAIN db :
            (/\ db[k].access_count >= AccessCountThreshold
             /\ now - db[k].last_access_time <= AccessTimeThreshold
             /\ db[k].tier # "hot"
             /\ CountFor(k) = 0) =>
               \E i \in DOMAIN moveQ' :
                  moveQ'[i].src = k /\ moveQ'[i].target_tier = "hot"]_vars

\* the sources of the tasks on q whose source tier is `tier`
SourcesFrom(q, tier) == {q[i].src : i \in {j \in DOMAIN q : q[j].source_tier = tier}}

\* record k1 comes before record k2 in the demotion order: older
\* last_access_time, then larger file_size, then lexicographic path
DemotedBefore(k1, k2) ==
    LET Index(k) == CHOOSE i \in DOMAIN ManyNames : ManyNames[i] = k[2] IN
    \/ db[k1].last_access_time < db[k2].last_access_time
    \/ /\ db[k1].last_access_time = db[k2].last_access_time
       /\ db[k1].file_size > db[k2].file_size
    \/ /\ db[k1].last_access_time = db[k2].last_access_time
       /\ db[k1].file_size = db[k2].file_size
       /\ Index(k1) < Index(k2)

\* C12: for a tier over tier_capacity_threshold, Phase B enqueues exactly
\* min(10, files in the tier) records of the tier, and no record it leaves
\* out comes before an enqueued one when ordered by oldest last_access_time,
\* then larger file_size, then lexicographic path.
DemotionSelection ==
    [][(scanPc = "capacity" /\ scanPc' = "rules") =>
         \A tier \in {"hot", "warm"} :
            OverCapacity(tier) =>
               LET chosen == SourcesFrom(moveQ', tier)
                   n == Cardinality(InTier(db, tier))
               IN  /\ chosen \subseteq InTier(db, tier)
                   /\ Cardinality(chosen) = IF n < 10 THEN n ELSE 10
                   /\ \A k \in InTier(db, tier) \ chosen :
                         \A e \in chosen : ~DemotedBefore(k, e)]_vars

\* C13: Phase B enqueues demotion tasks from a tier only if the tier's usage
\* is strictly above tier_capacity_threshold, and at most 10 of them per tier.
DemotionTrigger ==
    [][(scanPc = "capacity" /\ scanPc' = "rules") =>
         \A tier \in TierSet :
            LET added == {i \in DOMAIN moveQ' :
                             i > Len(moveQ) /\ moveQ'[i].source_tier = tier}
            IN  /\ Cardinality(added) <= 10
                /\ added # {} => usage[tier] > TierCapacityThreshold]_vars

DemotionTriggerWitness ==
    /\ scanPc = "rules"
    /\ Cardinality(InTier(db, "hot")) > 10 /\ usage["hot"] > TierCapacityThreshold
    /\ Cardinality({i \in DOMAIN moveQ : moveQ[i].source_tier = "hot"}) = 10
    /\ Cardinality(InTier(db, "warm")) > 10 /\ usage["warm"] = TierCapacityThreshold
    /\ SourcesFrom(moveQ, "warm") = {}

\* C14: every task Phase B enqueues goes from hot to warm or from warm to
\* cold; none is enqueued for the cold tier, so none has source_tier =
\* target_tier.
DemotionTargets ==
    [][(scanPc = "capacity" /\ scanPc' = "rules") =>
         \A i \in DOMAIN moveQ' :
            i > Len(moveQ) =>
               <<moveQ'[i].source_tier, moveQ'[i].target_tier>>
                  \in {<<"hot", "warm">>, <<"warm", "cold">>}]_vars

\* C15: a Reconciler pass run while no move is in progress leaves the
\* store's key set equal to the set of regular files under the hot, warm and
\* cold roots, at any depth.
Convergence ==
    [][(db' # db /\ scanPc' = scanPc /\ pool = <<>> /\ pool' = pool) =>
         DOMAIN db' = {RelativePath(p) : p \in DOMAIN fs'}]_vars

\* a step that is a Reconciler pass: the store changes while the scan loop,
\* the channels and the pool stand still
ReconcilerStep ==
    db' # db /\ scanPc' = scanPc /\ pool' = pool /\ moveQ' = moveQ /\ retryQ' = retryQ

\* the store d labels file n, which lives under tier root T only, with tier T2
Mislabelled(d, n, T, T2) ==
    /\ AbsPath(T, n) \in DOMAIN fs
    /\ AbsPath(T2, n) \notin DOMAIN fs
    /\ \/ <<T2, n>> \in DOMAIN d /\ d[<<T2, n>>].tier = T2
       \/ <<T, n>> \in DOMAIN d /\ d[<<T, n>>].tier = T2

\* C16: if before a Reconciler pass a file lives under tier root T while its
\* record says another tier T2, then after the pass the file has a record
\* with key prefix T and tier T, and no record with tier T2.
ReconcileMislabel ==
    [][ReconcilerStep =>
         \A n \in Names, T \in TierSet, T2 \in TierSet :
            (T # T2 /\ Mislabelled(db, n, T, T2)) =>
               /\ <<T, n>> \in DOMAIN db'
               /\ db'[<<T, n>>].tier = T
               /\ \A k \in DOMAIN db' : ~(k[Len(k)] = n /\ db'[k].tier = T2)]_vars

\* a file moved by the copy tool whose record still says the old tier, and
\* a Reconciler pass about to repair it
ReconcileMislabelWitness ==
    /\ \E n \in Names, T \in TierSet, T2 \in TierSet : T # T2 /\ Mislabelled(db, n, T, T2)
    /\ ENABLED ValidateAndUpdateDatabase

\* C17: a Reconciler pass leaves the Move Queue, the Retry Queue and the
\* tasks held by the movers unchanged.
ReconcilerNeverEnqueues ==
    [][(db' # db /\ scanPc' = scanPc) =>
         moveQ' = moveQ /\ retryQ' = retryQ /\ pool' = pool]_vars

\* a task queued for a file whose record a Reconciler pass has since removed
ReconcilerNeverEnqueuesWitness ==
    /\ scanPc = "sleep"
    /\ \E i \in DOMAIN moveQ : moveQ[i].retries = 0 /\ moveQ[i].src \notin DOMAIN db

\* C18 as stated: a second Scan pass over the same filesystem leaves the
\* store as the first pass left it, but for the access_count of every
\* record, which is higher by exactly 1.
ScanIdempotence ==
    [][(scanPc = "sleep" /\ scanPc' = "capacity") =>
         LET first  == db'
             second == RefreshAll(db', Entries)
         IN  /\ DOMAIN second = DOMAIN first
             /\ \A k \in DOMAIN first :
                   second[k] = [first[k] EXCEPT !.access_count = @ + 1]]_vars

\* C18 as amended: a second Scan pass over the same filesystem leaves the
\* store as the first pass left it, but for access_count, which is higher by
\* exactly 1 in every record whose file the pass observes and unchanged in
\* the records whose file is gone.
ScanIdempotenceObserved ==
    [][(scanPc = "sleep" /\ scanPc' = "capacity") =>
         LET first  == db'
             second == RefreshAll(db', Entries)
         IN  /\ DOMAIN second = DOMAIN first
             /\ \A k \in DOMAIN first :
                   second[k] = [first[k] EXCEPT !.access_count =
                                   IF Join(MERGERFS_MOUNT_PATH, k) \in DOMAIN fs
                                   THEN @ + 1 ELSE @]]_vars

\* Phase A has run over a store that holds the record of a deleted file
ScanIdempotenceWitness ==
    /\ scanPc = "capacity"
    /\ \E k \in DOMAIN db : Join(MERGERFS_MOUNT_PATH, k) \notin DOMAIN fs

\* C19: with dryrun set, no task is forwarded to the Retry Queue, the copy
\* step of a mover leaves the filesystem unchanged, and a mover that
\* finishes a task leaves the record of the file with the target tier.
DryRun ==
    [][dryrun =>
         /\ retryQ' = retryQ
         /\ \A i \in DOMAIN pool :
               LET t == pool[i].task
                   old == RelativePath(t.src)
                   new == RelativePath(Dest(t))
               IN  /\ (pool[i].st = "start" /\ pool' # pool) => fs' = fs
                   /\ (pool[i].st = "ok" /\ pool' = RemoveAt(pool, i)
                          /\ old \in DOMAIN db) =>
                         \/ old \in DOMAIN db' /\ db'[old].tier = t.target_tier
                         \/ new \in DOMAIN db' /\ db'[new].tier = t.target_tier]_vars

Backpressure == Len(moveQ) <= 100

\* C22: no mover waits for the copy tool's child process while it holds a
\* mutex that the scan loop, the Reconciler or another mover needs.
NoLockAcrossCopy == \A i \in DOMAIN pool : pool[i].st = "copy" => ~lock

\* the jobs a worker thread has started on and not finished
InProgress == {i \in DOMAIN pool : pool[i].st # "start"}

\* C23: the movers never process more tasks at the same time than the pool
\* has threads.
PoolSize == Cardinality(InProgress) <= Threads

\* every thread of the pool is in the middle of a task and one more task waits
PoolSizeWitness ==
    /\ Len(pool) = Threads + 1
    /\ Cardinality(InProgress) = Threads
    /\ Threads >= 2

\* C24: once the process has been asked to shut down, the Scan loop starts no
\* new pass, the mover loop receives no new task, the Retry loop receives no
\* new task and the Reconciler starts no new pass.
Shutdown ==
    [][shutdown =>
         ~(UpdateFileMetadata \/ FileMoverLoop \/ RetryLoop \/ ValidateAndUpdateDatabase)]_vars

\* C25: with the copy tool moving a file in one step, in every quiescent
\* state no path below a tier root exists under two tier roots, also after
\* two tasks with different targets were queued for the same file.
NamespacePartition ==
    Quiescent =>
       \A p \in DOMAIN fs, q \in DOMAIN fs : TierRelative(p) = TierRelative(q) => p = q

\* both tasks of a pair are done: the file has left the tier its record was
\* made in and lives under another root
NamespacePartitionWitness ==
    /\ Quiescent
    /\ \E k \in DOMAIN db, p \in DOMAIN fs :
          /\ Join(MERGERFS_MOUNT_PATH, k) \notin DOMAIN fs
          /\ TierRelative(p) = Tail(k)

\* the store holds exactly the regular files under the tier roots, each
\* under the tier it lives in
StoreIsTruth ==
    /\ DOMAIN db = {RelativePath(p) : p \in DOMAIN fs}
    /\ \A k \in DOMAIN db : db[k].tier = k[1]

\* C26: with the Reconciler scheduled fairly, once the filesystem has stopped
\* changing and no move is pending the store eventually equals the
\* filesystem truth and stays so.
EventualConvergence == <>[]StoreIsTruth

\* C27: a Scan pass in which stat fails on one entry skips that entry,
\* records every other entry and goes on to Phase B.
IoErrorsSkipped ==
    [][UpdateFileMetadataPanic =>
         /\ scanPc' = "capacity"
         /\ \E i \in DOMAIN Entries : db' = RefreshAll(db, RemoveAt(Entries, i))]_vars

PhaseACoverage ==
    [][UpdateFileMetadata =>
         \A p \in DOMAIN fs :
            /\ ContainsKey(db', RelativePath(p))
            /\ db'[RelativePath(p)].tier = TierOfPath(p)
            /\ db'[RelativePath(p)].file_size = fs[p].size]_vars

\* C30: Phase A never lowers the last_access_time of a record: the stored
\* value becomes the larger of the stored and the observed access time.
RunningMaximum ==
    [][UpdateFileMetadata =>
         \A p \in DOMAIN fs :
            ContainsKey(db, RelativePath(p)) /\ ContainsKey(db', RelativePath(p)) =>
               LET stored == db[RelativePath(p)].last_access_time
                   observed == fs[p].atime
               IN  db'[RelativePath(p)].last_access_time
                      = IF stored > observed THEN stored ELSE observed]_vars

\* C31: every task Phase C enqueues has target_tier hot, retries 0 and the
\* source_tier of its record, and is for a record whose tier is not hot, whose
\* access_count is at least access_count_threshold and whose last_access_time
\* lies within access_time_threshold of now.
PromotionSoundness ==
    [][MoveFilesBasedOnRules =>
         \A i \in DOMAIN moveQ' :
            i > Len(moveQ) =>
               LET t == moveQ'[i] IN
               /\ t.target_tier = "hot"
               /\ t.retries = 0
               /\ ContainsKey(db, t.src)
               /\ t.source_tier = db[t.src].tier
               /\ db[t.src].tier # "hot"
               /\ db[t.src].access_count >= AccessCountThreshold
               /\ now - db[t.src].last_access_time <= AccessTimeThreshold]_vars

\* Phase C has just queued a promotion
PromotionSoundnessWitness ==
    /\ scanPc = "sleep"
    /\ moveQ # <<>>
    /\ moveQ[Len(moveQ)].target_tier = "hot"
    /\ moveQ[Len(moveQ)].retries = 0
    /\ ContainsKey(db, moveQ[Len(moveQ)].src)

\* C32: every task a mover lets go of has reached an end of its attempt: the
\* copy succeeded, or the copy failed and the task went to the Retry Queue,
\* where it is forwarded or, after its fourth attempt, dropped; no task
\* leaves in another way.
EveryTaskTerminates ==
    [][\A i \in DOMAIN pool :
          pool' = RemoveAt(pool, i) =>
             \/ pool[i].st = "ok"
             \/ pool[i].st = "err" /\ retryQ' = Append(retryQ, pool[i].task)]_vars

\* C33: for every task in the queues or with a mover, the path computation
\* of the mover succeeds: the source it hands to the copy tool is the file
\* <union root>/<source_tier>/<relative> and the destination is
\* <union root>/<target_tier>/<relative>, with the same <relative>.
PathResolution ==
    \A t \in Tasks :
       /\ Stripped(t).ok
       /\ t.src = Join(SourcePath(t), Stripped(t).path)
       /\ Dest(t) = Join(TargetPath(t), Stripped(t).path)

\* C34: no task whose target tier has no eligible device is on the Move
\* Queue, on the Retry Queue or held by a mover.
NoTaskTowardEmptyTier == \A t \in Tasks : TierDevices(t.target_tier) # {}

NoChannelDeadlock ==
    InFlight > 0 =>
       ENABLED (FileMoverLoop \/ MoveFileBegin \/ RsyncExit \/ MoveFileFinish \/ RetryLoop)

\* a mover holds the mutex in its copy while a task waits on the Move Queue
NoChannelDeadlockWitness ==
    /\ lock
    /\ moveQ # <<>>
    /\ \E i \in DOMAIN pool : pool[i].st = "copy"

\* C37: when a move of the file Phase A holds has succeeded and finished
\* between the db.get and the db.insert of Phase A, then after the insert
\* the store has no record under the old key and one record under the new
\* key, with the tier the file went to, last_tier_move set and an
\* access_count not below the one read.
NoLostUpdate ==
    [][(scanHeld # <<>> /\ scanHeld' = <<>>) =>
         LET h == scanHeld[1] IN
         \A p \in DOMAIN fs :
            (/\ h.found
             /\ h.path \notin DOMAIN fs
             /\ TierRelative(p) = TierRelative(h.path)
             /\ \A t \in Tasks : t.src # h.path) =>
               /\ ~ContainsKey(db', RelativePath(h.path))
               /\ ContainsKey(db', RelativePath(p))
               /\ db'[RelativePath(p)].tier = TierOfPath(p)
               /\ db'[RelativePath(p)].last_tier_move # Never
               /\ db'[RelativePath(p)].access_count >= h.info.access_count]_vars

ReconcilerLeavesStatistics ==
    [][ReconcilerStep =>
         \A k \in DOMAIN db :
            Join(MERGERFS_MOUNT_PATH, k) \in DOMAIN fs =>
               /\ ContainsKey(db', k)
               /\ db'[k].access_count = db[k].access_count
               /\ db'[k].last_access_time = db[k].last_access_time
               /\ db'[k].file_size = db[k].file_size
               /\ db'[k].last_tier_move = db[k].last_tier_move]_vars

\* a Reconciler pass is about to run over a record the Scan has counted
\* twice and whose file is there
ReconcilerLeavesStatisticsWitness ==
    /\ ENABLED ValidateAndUpdateDatabase
    /\ \E k \in DOMAIN db :
          /\ db[k].access_count >= 2
          /\ Join(MERGERFS_MOUNT_PATH, k) \in DOMAIN fs

====
